---- MODULE Spec2Model ----
(***************************************************************************)
(* Deep Embedded Clustering training loop of                               *)
(* Clustering/ConvolutionalAutoencoder.py: acc_cluster, target_distribution *)
(* and the __main__ loop (evaluation tick, stop criterion, minibatch       *)
(* cursor).  The networks (encoder.predict, model.predict,                 *)
(* model.train_on_batch) and KMeans are opaque: model.predict yields any   *)
(* soft assignment matrix of the bounded set, KMeans any label vector.     *)
(***************************************************************************)
EXTENDS Integers, Sequences, FiniteSets

\* ---- bounds of the model ------------------------------------------------
\* loop runs over labelled datasets: samples, label values, iterations, interval
MaxN == 2
MaxLabel == 1
MaxIter == 3
MaxU == 2
\* loop runs over single-cluster datasets: samples, batch size, iterations
MaxRunN == 3
MaxB == 2
MaxRunIter == 4
\* inputs of acc_cluster and target_distribution applied on their own
MaxAccN == 3
MaxAccLabel == 1
MaxQN == 2
MaxQK == 3
QRes == 2

\* ---- program constants --------------------------------------------------
\* tol = 0.001, as the exact ratio TolNum/TolDen
TolNum == 1
TolDen == 1000
\* np.round(acc, 5): five decimals
RoundDigits == 5

VARIABLES
    N,            \* X.shape[0]
    batch_size,   \* batch_size
    maxiter,      \* maxiter
    update_interval, \* update_interval
    y,            \* ground truth: [present |-> BOOLEAN, val |-> label vector]
    n_clusters,   \* n_clusters
    ite,          \* loop variable of `for ite in range(int(maxiter))`
    index,        \* minibatch cursor
    q,            \* last model.predict(X) (<< >> before the first tick)
    p,            \* auxiliary target distribution (<< >> while unassigned)
    p_ite,        \* iteration whose tick assigned p (-1 while unassigned)
    y_pred,       \* hard labels
    y_pred_last,  \* hard labels of the previous tick
    delta_label,  \* <<changed, total>>, the ratio changed/total
    report,       \* last `Iter ...` line printed
    batches,      \* the calls of model.train_on_batch made so far
    ret,          \* value returned by a function applied on its own
    pc            \* position of the script

vars == <<N, batch_size, maxiter, update_interval, y, n_clusters, ite, index,
          q, p, p_ite, y_pred, y_pred_last, delta_label, report, batches, ret, pc>>

config == <<N, batch_size, maxiter, update_interval, y, n_clusters>>

\* ---- helpers --------------------------------------------------------------
Min(a, b) == IF a <= b THEN a ELSE b

Max(a, b) == IF a >= b THEN a ELSE b

RECURSIVE GCD(_, _)
GCD(a, b) == IF b = 0 THEN a ELSE GCD(b, a % b)

\* Op applied to the value of v, which is computed once: an intermediate
\* result held in a local variable
With(v, Op(_)) == CHOOSE r \in {Op(a) : a \in {v}} : TRUE

\* the reductions below halve their range, so that their depth stays
\* logarithmic in the length of the array
RECURSIVE SumRange(_, _, _)
SumRange(s, lo, hi) ==
    IF lo > hi THEN 0
    ELSE IF lo = hi THEN s[lo]
    ELSE With((lo + hi) \div 2,
              LAMBDA mid : SumRange(s, lo, mid) + SumRange(s, mid + 1, hi))

SumSeq(s) == SumRange(s, 1, Len(s))

RECURSIVE MaxRange(_, _, _)
MaxRange(s, lo, hi) ==
    IF lo = hi THEN s[lo]
    ELSE With((lo + hi) \div 2,
              LAMBDA mid : With(MaxRange(s, lo, mid), LAMBDA left :
                           With(MaxRange(s, mid + 1, hi), LAMBDA right :
                               Max(left, right))))

\* ndarray.max()
MaxSeq(s) == MaxRange(s, 1, Len(s))

\* the array s[lo..hi] as an explicit tuple (an array held in memory, computed once)
RECURSIVE Stored(_, _, _)
Stored(s, lo, hi) ==
    IF lo > hi THEN << >>
    ELSE IF lo = hi THEN <<s[lo]>>
    ELSE With((lo + hi) \div 2,
              LAMBDA mid : Stored(s, lo, mid) \o Stored(s, mid + 1, hi))

\* a D x D array, indexed from 0 in the code, as a tuple of tuples indexed from 1
Stored2(m, D) == Stored([i \in 1..D |-> Stored([j \in 1..D |-> m[i - 1][j - 1]], 1, D)], 1, D)

RECURSIVE Pow10(_)
Pow10(k) == IF k = 0 THEN 1 ELSE 10 * Pow10(k - 1)

\* ---- floating point values as exact ratios <<n, d>> -------------------------
\* d = 0 stands for the IEEE results of dividing by zero: <<0,0>> is nan,
\* <<1,0>> is inf.
NaN == <<0, 0>>

Inf == <<1, 0>>

Ratio(n, d) ==
    IF d = 0 THEN (IF n = 0 THEN NaN ELSE Inf)
    ELSE With(GCD(n, d), LAMBDA g : <<n \div g, d \div g>>)

FAdd(a, b) ==
    IF a = NaN \/ b = NaN THEN NaN
    ELSE IF a = Inf \/ b = Inf THEN Inf
    ELSE Ratio(a[1] * b[2] + b[1] * a[2], a[2] * b[2])

FMul(a, b) == Ratio(a[1] * b[1], a[2] * b[2])

FDiv(a, b) == Ratio(a[1] * b[2], a[2] * b[1])

RECURSIVE FSumRange(_, _, _)
FSumRange(s, lo, hi) ==
    IF lo > hi THEN <<0, 1>>
    ELSE IF lo = hi THEN s[lo]
    ELSE With((lo + hi) \div 2,
              LAMBDA mid : With(FSumRange(s, lo, mid), LAMBDA left :
                           With(FSumRange(s, mid + 1, hi), LAMBDA right :
                               FAdd(left, right))))

FSum(s) == FSumRange(s, 1, Len(s))

\* ---- acc_cluster -----------------------------------------------------------
Permutations(D) ==
    {f \in [0..(D - 1) -> 0..(D - 1)] : \A a, b \in 0..(D - 1) : f[a] = f[b] => a = b}

\* w[i, j] = number of samples predicted i whose true label is j
Contingency(y_true, yp, D) ==
    Stored2([i \in 0..(D - 1) |-> [j \in 0..(D - 1) |->
                Cardinality({k \in 1..Len(yp) : yp[k] = i /\ y_true[k] = j})]], D)

\* ndarray.max() of a D x D array
MaxEntry(w, D) ==
    CHOOSE m \in {w[i][j] : i, j \in 1..D} :
        \A i, j \in 1..D : w[i][j] <= m

\* the sum of m[k, f[k]] over the rows k = 0..D-1
RECURSIVE AssignmentSum(_, _, _)
AssignmentSum(m, f, k) ==
    IF k < 0 THEN 0 ELSE m[k + 1][f[k] + 1] + AssignmentSum(m, f, k - 1)

\* scipy linear_sum_assignment: a one-to-one row-to-column assignment of
\* minimum total cost
LinearAssignment(cost, D) ==
    With({AssignmentSum(cost, g, D - 1) : g \in Permutations(D)}, LAMBDA totals :
    With(CHOOSE t \in totals : \A u \in totals : t <= u, LAMBDA least :
        CHOOSE f \in Permutations(D) : AssignmentSum(cost, f, D - 1) = least))

\* the AssertionError of `assert y_pred.size == y_true.size`
AccClusterRaises(y_true, yp) == Len(yp) # Len(y_true)

AccClusterDiagonal(y_true, yp) ==
    With(Max(MaxSeq(yp), MaxSeq(y_true)) + 1, LAMBDA D :
    With(Contingency(y_true, yp, D), LAMBDA w :
        <<AssignmentSum(w, [i \in 0..(D - 1) |-> i], D - 1), Len(yp)>>))

\* the value s * 1.0 / y_pred.size as the pair <<s, y_pred.size>>
AccCluster(y_true, yp) ==
    With(Max(MaxSeq(yp), MaxSeq(y_true)) + 1, LAMBDA D :
    With(Contingency(y_true, yp, D), LAMBDA w :
    With(MaxEntry(w, D), LAMBDA wmax :
    With(Stored2([i \in 0..(D - 1) |-> [j \in 0..(D - 1) |->
                     wmax - w[i + 1][j + 1]]], D), LAMBDA cost :
    With(LinearAssignment(cost, D), LAMBDA ind :
        <<AssignmentSum(w, ind, D - 1), Len(yp)>>)))))

\* np.round(x, 5) of x = a[1]/a[2], in units of 10^-5 (round half to even)
NpRound(a) ==
    With(a, LAMBDA x :
    With(x[1] * Pow10(RoundDigits), LAMBDA num :
        LET lo == num \div x[2]
            twice == 2 * (num % x[2])
        IN  IF twice > x[2] \/ (twice = x[2] /\ lo % 2 = 1) THEN lo + 1 ELSE lo))

\* ---- target_distribution ---------------------------------------------------
Column(m, j) == [i \in 1..Len(m) |-> m[i][j]]

TargetDistribution(qq) ==
    LET rows == 1..Len(qq)
        cols == 1..Len(qq[1])
    IN  \* q.sum(0)
        With(Stored([j \in cols |-> FSum(Column(qq, j))], 1, Len(qq[1])), LAMBDA colsum :
        \* weight = q ** 2 / q.sum(0)
        With(Stored([i \in rows |-> Stored([j \in cols |->
                        FDiv(FMul(qq[i][j], qq[i][j]), colsum[j])], 1, Len(qq[1]))],
                    1, Len(qq)), LAMBDA weight :
        \* weight.sum(1)
        With(Stored([i \in rows |-> FSum(weight[i])], 1, Len(qq)), LAMBDA rowsum :
            [i \in rows |-> [j \in cols |-> FDiv(weight[i][j], rowsum[i])]])))

\* ---- model.predict and q.argmax(1) -------------------------------------------
\* rows of k probabilities in steps of 1/res that sum to 1
SoftRows(k, res) ==
    {[j \in 1..k |-> Ratio(r[j], res)] :
        r \in {s \in [1..k -> 0..res] : SumSeq(s) = res}}

SoftAssignments(n, k, res) == [1..n -> SoftRows(k, res)]

\* what model.predict(X) may return in a run of the loop: every sample
\* wholly assigned to one cluster
Predictions(n, k) == SoftAssignments(n, k, 1)

Less(a, b) == a[1] * b[2] < b[1] * a[2]

\* numpy argmax: the first index of a maximal entry, counted from 0
Argmax(row) ==
    (CHOOSE j \in 1..Len(row) :
        /\ \A l \in 1..Len(row) : ~Less(row[j], row[l])
        /\ \A l \in 1..(j - 1) : Less(row[l], row[j])) - 1

HardLabels(qq) == Stored([i \in 1..Len(qq) |-> Argmax(qq[i])], 1, Len(qq))

\* ---- the loop's expressions ----------------------------------------------------
LabelVectors(n, k) == [1..n -> 0..(k - 1)]

\* len(np.unique(y)); np.unique(None) is the one-element array [None]
NUnique(yy) == IF yy.present THEN Cardinality({yy.val[i] : i \in 1..Len(yy.val)}) ELSE 1

IsTickSkippingFirst(i, u) == i % u = 0 /\ i > 0

IsTick(i, u) == i % u = 0

DeltaLabelCountingEqual(yp, last) ==
    <<SumSeq([k \in 1..Len(yp) |-> IF yp[k] = last[k] THEN 1 ELSE 0]), Len(yp)>>

\* np.sum(y_pred != y_pred_last).astype(np.float32) / y_pred.shape[0]
DeltaLabel(yp, last) ==
    <<SumSeq([k \in 1..Len(yp) |-> IF yp[k] # last[k] THEN 1 ELSE 0]), Len(yp)>>

AboveTol(d) == d[1] * TolDen > TolNum * d[2]

\* delta_label < tol
BelowTol(d) == d[1] * TolDen < TolNum * d[2]

StopCriterionAtAnyTick(i, d) == BelowTol(d)

\* ite > 0 and delta_label < tol
StopCriterion(i, d) == i > 0 /\ BelowTol(d)

RangeDoneOneLate(i, m) == i > m

\* range(int(maxiter)) is exhausted
RangeDone(i, m) == i >= m

\* the bounds of index_array[index * batch_size: min((index + 1) * batch_size, X.shape[0])]
Slice(c, b, n) == <<c * b, Min((c + 1) * b, n)>>

NextIndexStrict(c, b, n) == IF (c + 1) * b < n THEN c + 1 ELSE 0

\* index + 1 if (index + 1) * batch_size <= X.shape[0] else 0
NextIndex(c, b, n) == IF (c + 1) * b <= n THEN c + 1 ELSE 0

\* number of samples of a slice <<start, stop>> of an array of n entries
SliceSize(s, n) == Max(0, Min(s[2], n) - Min(s[1], n))

MetricsBlockUnguarded(yy, yp) ==
    IF ~yy.present \/ AccClusterRaises(yy.val, yp) THEN "raised" ELSE "printed"

\* `if y is not None:` acc_cluster, nmi, ari, print
MetricsBlock(yy, yp) ==
    IF ~yy.present THEN "skipped"
    ELSE IF AccClusterRaises(yy.val, yp) THEN "raised"
    ELSE "printed"

\* ---- the script ------------------------------------------------------------
\* A run is given by the data files (X and y are loaded from separate files,
\* lines 138-141) and by the settings the script assigns (batch_size = 128,
\* maxiter = 8000, update_interval = 140), which the runs below range over at
\* small values.  y is None in a run without ground truth, the case that
\* `if y is not None` (line 199) provides for.
None == [present |-> FALSE, val |-> << >>]

Labelled(v) == [present |-> TRUE, val |-> v]

\* datasets with ground-truth labels of one or more classes (of a length that
\* may differ from the number of samples)
LabelledRuns ==
    /\ N \in 1..MaxN
    /\ batch_size = 128
    \* the samples come grouped by class
    /\ y \in {Labelled(v) : v \in {u \in UNION {[1..n -> 0..MaxLabel] : n \in 1..MaxN} :
                                      \A i \in 1..(Len(u) - 1) : u[i] <= u[i + 1]}}
    \* KMeans(n_clusters).fit_predict needs n_samples >= n_clusters
    /\ NUnique(y) <= N
    /\ maxiter \in 1..MaxIter
    /\ update_interval \in 1..MaxU

\* datasets of a single cluster, with or without ground-truth labels
SingleClusterRuns ==
    /\ N \in 1..MaxRunN
    /\ batch_size \in 1..MaxB
    /\ y \in {None, Labelled([i \in 1..N |-> 0])}
    /\ maxiter \in 1..MaxRunIter
    /\ update_interval \in 1..MaxRunIter

\* a dataset of 300 samples of a single cluster, in batches of 128
ScenarioRuns ==
    /\ N = 300
    /\ batch_size = 128
    /\ y \in {None, Labelled([i \in 1..N |-> 0])}
    /\ maxiter \in 1..MaxRunIter
    /\ update_interval \in 1..MaxRunIter

\* lines 148-186: the state when the loop is entered
LoopEntered ==
    /\ n_clusters = NUnique(y)
    /\ y_pred \in LabelVectors(N, n_clusters)
    /\ y_pred_last = y_pred
    /\ ite = 0
    /\ index = 0
    /\ q = << >>
    /\ p = << >>
    /\ p_ite = -1
    /\ delta_label = << >>
    /\ report = << >>
    /\ batches = << >>
    /\ ret = << >>
    /\ pc = "loop"

Init == (LabelledRuns \/ SingleClusterRuns \/ ScenarioRuns) /\ LoopEntered

\* lines 189-212: the evaluation tick
EvalTick ==
    /\ pc = "loop"
    /\ ~RangeDone(ite, maxiter)
    /\ IsTick(ite, update_interval)
    /\ \E qq \in Predictions(N, n_clusters) : \E yp \in {HardLabels(qq)} :
        LET outcome == MetricsBlock(y, yp)
            d == DeltaLabel(yp, y_pred_last)
        IN  /\ q' = qq
            /\ p' = TargetDistribution(qq)
            /\ p_ite' = ite
            /\ y_pred' = yp
            /\ IF outcome = "raised"
               THEN /\ pc' = "ABORTED"
                    /\ UNCHANGED <<report, delta_label, y_pred_last>>
               ELSE /\ report' = IF outcome = "printed"
                                 THEN <<ite, NpRound(AccCluster(y.val, yp))>>
                                 ELSE report
                    /\ delta_label' = d
                    /\ y_pred_last' = yp
                    /\ pc' = IF StopCriterion(ite, d) THEN "CONVERGED" ELSE "train"
    /\ UNCHANGED <<config, ite, index, batches, ret>>

\* lines 213-215: the gradient step on the next minibatch
TrainStep ==
    /\ \/ pc = "train"
       \/ /\ pc = "loop"
          /\ ~RangeDone(ite, maxiter)
          /\ ~IsTick(ite, update_interval)
    /\ batches' = Append(batches,
                         [ite |-> ite,
                          idx |-> Slice(index, batch_size, N),
                          p_ite |-> p_ite])
    /\ index' = NextIndex(index, batch_size, N)
    /\ ite' = ite + 1
    /\ pc' = "loop"
    /\ UNCHANGED <<config, q, p, p_ite, y_pred, y_pred_last, delta_label, report, ret>>

\* line 188 exhausted, line 217
LoopExit ==
    /\ pc = "loop"
    /\ RangeDone(ite, maxiter)
    /\ pc' = "MAX_ITER_REACHED"
    /\ UNCHANGED <<config, ite, index, q, p, p_ite, y_pred, y_pred_last,
                   delta_label, report, batches, ret>>

Next == EvalTick \/ TrainStep \/ LoopExit

Spec == Init /\ [][Next]_vars

\* the interpreter runs the script to its end (on the small datasets)
FairInit == (LabelledRuns \/ SingleClusterRuns) /\ LoopEntered

FairSpec == FairInit /\ [][Next]_vars /\ WF_vars(Next)

\* ---- acc_cluster and target_distribution applied on their own -----------------
FunctionInit ==
    /\ \/ /\ pc = "acc_cluster"
          /\ \E n \in 1..MaxAccN :
                /\ y \in {Labelled(v) : v \in [1..n -> 0..MaxAccLabel]}
                /\ y_pred \in [1..n -> 0..MaxAccLabel]
          /\ q = << >>
       \/ /\ pc = "target_distribution"
          /\ \E n \in 1..MaxQN, k \in 2..MaxQK : q \in SoftAssignments(n, k, QRes)
          /\ y = None
          /\ y_pred = << >>
    /\ N = 0
    /\ batch_size = 0
    /\ maxiter = 0
    /\ update_interval = 0
    /\ n_clusters = 0
    /\ y_pred_last = << >>
    /\ ite = 0
    /\ index = 0
    /\ p = << >>
    /\ p_ite = -1
    /\ delta_label = << >>
    /\ report = << >>
    /\ batches = << >>
    /\ ret = << >>

\* lines 15-35
CallAccCluster ==
    /\ pc = "acc_cluster"
    /\ ret' = AccCluster(y.val, y_pred)
    /\ pc' = "acc_cluster returned"
    /\ UNCHANGED <<config, ite, index, q, p, p_ite, y_pred, y_pred_last,
                   delta_label, report, batches>>

\* lines 128-130
CallTargetDistribution ==
    /\ pc = "target_distribution"
    /\ ret' = TargetDistribution(q)
    /\ pc' = "target_distribution returned"
    /\ UNCHANGED <<config, ite, index, q, p, p_ite, y_pred, y_pred_last,
                   delta_label, report, batches>>

FunctionNext == CallAccCluster \/ CallTargetDistribution

FunctionSpec == FunctionInit /\ [][FunctionNext]_vars

\* ---- properties of the training loop ---------------------------------------------
Running == pc \in {"loop", "train"}

\* a step that runs the evaluation tick
TickStep == pc = "loop" /\ pc' \in {"train", "CONVERGED", "ABORTED"}

\* an evaluation tick that reaches its drift computation (line 207)
DriftStep == pc = "loop" /\ pc' \in {"train", "CONVERGED"}

\* a step that calls model.train_on_batch
GradientStep == batches' # batches

\* number of samples whose label differs between two assignments
Differing(a, b) == Cardinality({k \in 1..Len(a) : a[k] # b[k]})

\* C1: a tick at an iteration > 0 whose drift is below the tolerance moves the
\* loop to CONVERGED and nothing runs after it, so that no gradient step is made
\* at that iteration or later; and CONVERGED is entered only by a tick (an
\* iteration that is a multiple of the update interval) at an iteration > 0
\* whose drift is below the tolerance.
C1_ConvergedIffDriftBelowTol ==
    /\ [][(DriftStep /\ ite > 0 /\ delta_label'[1] * TolDen < TolNum * delta_label'[2])
            => pc' = "CONVERGED"]_vars
    /\ [][(pc' = "CONVERGED")
            => /\ DriftStep
               /\ ite > 0
               /\ ite % update_interval = 0
               /\ delta_label'[1] * TolDen < TolNum * delta_label'[2]
               /\ ~GradientStep]_vars
    /\ [][pc # "CONVERGED"]_vars
    /\ [](pc = "CONVERGED" => \A k \in 1..Len(batches) : batches[k].ite < ite)

C1_Witness ==
    /\ pc = "CONVERGED"
    /\ update_interval = 1
    /\ ite = 2
    /\ n_clusters >= 2
    /\ Len(batches) = 2

\* C2: the k-th minibatch is the slice [c*B : min((c+1)*B, N)] of the cursor c,
\* which starts at 0, advances by one after each draw and returns to 0 when
\* (c+1)*B would exceed N; so the cursor cycles with period N div B + 1, and with
\* N = 300, B = 128 the slices are [0:128], [128:256], [256:300], [0:128], ...
C2_ScenarioSlices == <<(<<0, 128>>), (<<128, 256>>), (<<256, 300>>)>>

C2_CyclicSlicing ==
    /\ [][GradientStep =>
            /\ batches'[Len(batches')].idx =
                   <<index * batch_size, Min((index + 1) * batch_size, N)>>
            /\ index' = IF (index + 1) * batch_size > N THEN 0 ELSE index + 1]_vars
    /\ [](Running =>
            /\ index = Len(batches) % ((N \div batch_size) + 1)
            /\ \A k \in 1..Len(batches) :
                 LET c == (k - 1) % ((N \div batch_size) + 1)
                 IN  batches[k].idx = <<c * batch_size, Min((c + 1) * batch_size, N)>>)
    /\ []((Running /\ N = 300 /\ batch_size = 128) =>
            \A k \in 1..Len(batches) :
                batches[k].idx = C2_ScenarioSlices[((k - 1) % 3) + 1])

C2_Witness ==
    /\ N = 300
    /\ batch_size = 128
    /\ Len(batches) = 4
    /\ batches[4].idx = <<0, 128>>
    /\ batches[3].idx = <<256, 300>>

C4_OnlyTwoWaysToStop == pc \in {"loop", "train", "CONVERGED", "MAX_ITER_REACHED"}

\* C4 (amended): every run ends, after at most maxiter iterations, in CONVERGED
\* (entered with a drift below the tolerance) or in MAX_ITER_REACHED (entered
\* with all maxiter iterations done) or, when acc_cluster rejects ground-truth
\* labels whose number is not the number of samples, in the AssertionError
\* raised by the tick of iteration 0, before any gradient step.
C4_TerminatesOrAborts ==
    /\ <>(pc \in {"CONVERGED", "MAX_ITER_REACHED", "ABORTED"})
    /\ [](ite <= maxiter /\ Len(batches) <= maxiter)
    /\ [](pc = "MAX_ITER_REACHED" => ite = maxiter /\ Len(batches) = maxiter)
    /\ [](pc = "CONVERGED" =>
            /\ ite < maxiter
            /\ delta_label[1] * TolDen < TolNum * delta_label[2])
    /\ [](pc = "ABORTED" <=> (y.present /\ Len(y.val) # N /\ p_ite = 0))
    /\ [](pc = "ABORTED" => ite = 0 /\ batches = << >>)
    /\ [][Running]_vars

C4_Witness ==
    /\ pc = "MAX_ITER_REACHED"
    /\ n_clusters >= 2
    /\ Len(batches) = MaxIter
    /\ p_ite > 0

\* C5: p is assigned only by the evaluation ticks, which run at the multiples of
\* the update interval (iteration 0 included), and every gradient step, at any
\* iteration i, uses the p assigned at iteration U * floor(i / U); so p is
\* assigned before the first gradient step.
C5_TargetHeldBetweenTicks ==
    /\ [][(p' # p \/ p_ite' # p_ite) =>
            /\ TickStep
            /\ ite % update_interval = 0
            /\ p_ite' = ite
            /\ p' # << >>]_vars
    /\ [][GradientStep => (p # << >> /\ p' = p /\ batches'[Len(batches')].ite = ite)]_vars
    /\ [](\A k \in 1..Len(batches) :
            batches[k].p_ite = update_interval * (batches[k].ite \div update_interval))
    /\ []((Running /\ ite > 0) => p_ite = update_interval * ((ite - 1) \div update_interval)
                                  \/ p_ite = ite)

C5_Witness ==
    /\ update_interval = 2
    /\ n_clusters >= 2
    /\ Len(batches) = 3
    /\ batches[2].p_ite = 0
    /\ batches[3].p_ite = 2

C8_TickNeverAborts ==
    [][TickStep => (pc' # "ABORTED" /\ delta_label' # << >> /\ y_pred_last' = y_pred')]_vars

\* C8 (amended): a tick without ground-truth labels (y is None) prints no line,
\* computes the drift, stores the labels, makes the stopping check and, unless it
\* stops, is followed by the gradient step; a tick whose acc_cluster call rejects
\* its inputs (the number of ground-truth labels is not the number of samples)
\* aborts the loop with the AssertionError before the drift computation, leaving
\* the stored labels as they were, and no gradient step follows.
C8_MissingLabelsSkipAssertionAborts ==
    /\ [][(TickStep /\ ~y.present) =>
            /\ report' = report
            /\ delta_label' = <<Differing(y_pred', y_pred_last), N>>
            /\ y_pred_last' = y_pred'
            /\ pc' = IF ite > 0 /\ delta_label'[1] * TolDen < TolNum * delta_label'[2]
                     THEN "CONVERGED" ELSE "train"]_vars
    /\ [][(TickStep /\ y.present /\ Len(y.val) # N) =>
            /\ pc' = "ABORTED"
            /\ UNCHANGED <<report, delta_label, y_pred_last, batches>>]_vars
    /\ [][(TickStep /\ y.present /\ Len(y.val) = N) =>
            /\ pc' # "ABORTED"
            /\ report'[1] = ite]_vars
    /\ [][pc = "train" => GradientStep]_vars
    /\ [][pc # "ABORTED"]_vars

C8_Witness ==
    /\ ~y.present
    /\ report = << >>
    /\ delta_label # << >>
    /\ Len(batches) >= 2
    /\ p_ite > 0

\* C10 as stated: every minibatch handed to a gradient step has at least one and
\* at most batch_size samples, its slice starting below the dataset size.
C10_BatchesNonEmpty ==
    \A k \in 1..Len(batches) :
        /\ batches[k].idx[1] < N
        /\ SliceSize(batches[k].idx, N) >= 1
        /\ SliceSize(batches[k].idx, N) <= batch_size

\* ---- properties of the functions -----------------------------------------------
\* C7 as stated: for a q with a cluster column of zero total mass,
\* target_distribution returns no nan, gives every entry of that column 0 and
\* leaves the rest a distribution per row.
C7_ZeroColumnGivesZero ==
    (pc = "target_distribution returned") =>
        \A j \in 1..Len(q[1]) :
            (\A i \in 1..Len(q) : q[i][j] = <<0, 1>>) =>
                /\ \A i \in 1..Len(q) : ret[i][j] = <<0, 1>>
                /\ \A i \in 1..Len(q) : \A l \in 1..Len(q[1]) : ret[i][l][2] # 0
                /\ \A i \in 1..Len(q) : FSum(ret[i]) = <<1, 1>>

\* acc_cluster's labels range over 0..K-1
AccK == MaxAccLabel + 1

Relabelled(perm, yp) == [k \in 1..Len(yp) |-> perm[yp[k]]]

\* the largest number of samples a one-to-one pairing of clusters with labels matches
BestMatched(y_true, yp) ==
    LET counts == {Cardinality({k \in 1..Len(yp) : f[yp[k]] = y_true[k]}) :
                      f \in Permutations(AccK)}
    IN  CHOOSE c \in counts : \A d \in counts : d <= c

\* C9: acc_cluster(y_true, perm(y_pred)) = acc_cluster(y_true, y_pred) for every
\* permutation perm of the cluster indices 0..K-1; the value is the largest
\* matched count over the one-to-one pairings of clusters with labels, divided
\* by the number of samples, and is 1 when y_pred is a one-to-one relabelling of
\* y_true.
C9_AccPermutationInvariant ==
    (pc = "acc_cluster returned") =>
        /\ \A perm \in Permutations(AccK) :
              AccCluster(y.val, Relabelled(perm, y_pred)) = ret
        /\ ret = <<BestMatched(y.val, y_pred), Len(y_pred)>>
        /\ (\E perm \in Permutations(AccK) : y_pred = Relabelled(perm, y.val))
              => ret[1] = ret[2]

C9_Witness ==
    /\ pc = "acc_cluster returned"
    /\ Len(y_pred) = MaxAccN
    /\ y_pred # y.val
    /\ \E perm \in Permutations(AccK) : y_pred = Relabelled(perm, y.val)
    /\ \E k \in 1..Len(y_pred) : y_pred[k] # y_pred[1]
    /\ ret[1] = ret[2]

====
